---------------------------- MODULE Spec2Model ----------------------------
(***************************************************************************)
(* Model of the Telegram "User Info" bot: src/Bot.py and src/bot.py.       *)
(*                                                                         *)
(* The two files are two variants of one program (class UserInfoBot plus   *)
(* a __main__ block).  A run executes one of them; `variant` says which.   *)
(*                                                                         *)
(* Representation of values                                                *)
(*  - Python's None is the empty tuple <<>>, a present value x is <<x>>.   *)
(*  - Python strings that the code builds piece by piece (f-strings) are   *)
(*    sequences of fragments; strings the code computes from numbers       *)
(*    (decimal counts, dates) are sequences of one-character fragments.    *)
(*  - A Python int identifier id is held in base-2^16 limbs                *)
(*        id = w3 * 2^48 + w2 * 2^32 + w1 * 2^16 + w0,                     *)
(*    w0, w1, w2 in 0 .. 2^16 - 1 and w3 = id >> 48 any integer (negative  *)
(*    for a negative id, as in Python's infinite two's complement).  TLC's *)
(*    integers are 32 bits wide, the identifiers are not.                  *)
(*  - A 32-bit quantity is [hi, lo] = hi * 2^16 + lo.                      *)
(***************************************************************************)
EXTENDS Integers, Sequences, FiniteSets

VARIABLES
    variant,      \* which source file runs: "Bot.py" or "bot.py"
    platform,     \* width of the C library's time_t: "time_t32" or "time_t64"
    BOT_TOKEN,    \* os.getenv("TELEGRAM_BOT_TOKEN"): None, "" or a token
    pc,           \* position of the process
    handlers,     \* self.app's handlers, in registration order
    log,          \* records emitted through logger
    exit_status,  \* None while running, <<n>> after exit(n)
    now,          \* the wall clock, Unix seconds
    ticks,        \* how often the clock advanced
    update,       \* the Update being handled, or None
    handled_by,   \* name of the callback that handled `update`, or None
    replies,      \* the reply_text calls made for `update`
    age_call      \* the estimate_account_age call made for `update`, or None

vars == <<variant, platform, BOT_TOKEN, pc, handlers, log, exit_status,
          now, ticks, update, handled_by, replies, age_call>>

None == <<>>
Some(x) == <<x>>

\* Python truth value of an optional string: None and "" are false.
Truthy(opt) == opt # None /\ opt[1] # ""

\* Python truth value of an optional object (User, Chat): only None is false.
Present(opt) == opt # None

\* str(x) as an f-string renders an optional string: None prints as "None".
PyStr(opt) == IF opt = None THEN <<"None">> ELSE <<opt[1]>>

Base == 2 ^ 16

-----------------------------------------------------------------------------
(* Decimal rendering of integers, as f"{n}" does it.                       *)

DigitChars == <<"0", "1", "2", "3", "4", "5", "6", "7", "8", "9">>

RECURSIVE NatChars(_)
NatChars(n) ==
    IF n < 10 THEN <<DigitChars[n + 1]>>
    ELSE NatChars(n \div 10) \o <<DigitChars[(n % 10) + 1]>>

IntChars(n) == IF n < 0 THEN <<"-">> \o NatChars(0 - n) ELSE NatChars(n)

\* n with at least `width` digits, zero padded (strftime's %m, %d, %H, %M).
RECURSIVE Pad(_, _)
Pad(chars, width) ==
    IF Len(chars) >= width THEN chars ELSE Pad(<<"0">> \o chars, width)

\* Long division by 10 of a non-negative limb number <<m3, m2, m1, m0>>
\* (most significant first): the quotient's limbs and the remainder.
DivMod10(m) ==
    LET r3 == m[1] % 10
        c2 == (r3 * Base) + m[2]
        c1 == ((c2 % 10) * Base) + m[3]
        c0 == ((c1 % 10) * Base) + m[4]
    IN  [q |-> <<m[1] \div 10, c2 \div 10, c1 \div 10, c0 \div 10>>,
         r |-> c0 % 10]

RECURSIVE LimbChars(_)
LimbChars(m) ==
    LET d == DivMod10(m)
    IN  IF d.q = <<0, 0, 0, 0>> THEN <<DigitChars[d.r + 1]>>
        ELSE LimbChars(d.q) \o <<DigitChars[d.r + 1]>>

\* The limbs of -id for a negative id (two's complement negation).
Negate(id) ==
    LET n0 == Base - id.w0
        b0 == IF n0 = Base THEN 1 ELSE 0
        n1 == (Base - 1 - id.w1) + b0
        b1 == IF n1 = Base THEN 1 ELSE 0
        n2 == (Base - 1 - id.w2) + b1
        b2 == IF n2 = Base THEN 1 ELSE 0
    IN  <<(0 - 1 - id.w3) + b2, n2 % Base, n1 % Base, n0 % Base>>

\* f"{user.id}"
IdChars(id) ==
    IF id.w3 < 0 THEN <<"-">> \o LimbChars(Negate(id))
    ELSE LimbChars(<<id.w3, id.w2, id.w1, id.w0>>)

-----------------------------------------------------------------------------
(* estimate_account_age                                                    *)

\* user_id >> 32: drop the two low limbs (arithmetic shift, sign kept in hi).
Shr32(id) == [hi |-> id.w3, lo |-> id.w2]

\* The mask left out: the shifted value as it is.
And32_NoMask(v) == v

\* v & 0xFFFFFFFF: keep the low 32 bits.
And32(v) == [hi |-> v.hi % Base, lo |-> v.lo]

\* timestamp = (user_id >> 32) & 0xFFFFFFFF
timestamp(user_id) == And32(Shr32(user_id))

\* datetime.fromtimestamp(timestamp) raises OverflowError where the
\* timestamp does not fit the platform's time_t; with a 32-bit time_t that
\* is every timestamp from 2^31 on.  It is the one call in the try block
\* that can raise for a timestamp in 0 .. 2^32 - 1.
FromTimestampRaises(ts, plat) == plat = "time_t32" /\ ts.hi >= Base \div 2

SecondsPerDay == 24 * 60 * 60

\* The operands exchanged: (account_date - datetime.now()).days.
ElapsedDays_Swapped(ts, t) ==
    LET q  == (ts.hi * 512) + (ts.lo \div 128)
        td == q \div 675
        tr == ((q % 675) * 128) + (ts.lo % 128)
        nd == t \div SecondsPerDay
        nr == t % SecondsPerDay
    IN  td - nd - (IF tr < nr THEN 1 ELSE 0)

\* (datetime.now() - account_date).days: the floor of (t - ts) / 86400,
\* for ts = hi * 2^16 + lo.  With 86400 = 128 * 675, ts = 86400 * td + tr
\* and t = 86400 * nd + nr, so that the floor is nd - td, less one when
\* nr < tr.  Both datetimes are naive local times of one fixed UTC offset.
ElapsedDays(ts, t) ==
    LET q  == (ts.hi * 512) + (ts.lo \div 128)
        td == q \div 675
        tr == ((q % 675) * 128) + (ts.lo % 128)
        nd == t \div SecondsPerDay
        nr == t % SecondsPerDay
    IN  nd - td - (IF nr < tr THEN 1 ELSE 0)

DaysPerYear == 365
DaysPerMonth == 30

\* 's' if count != 1 else ''
PluralS_NotOne(count) == IF count # 1 THEN <<"s">> ELSE <<>>

\* 's' if count > 1 else ''
PluralS(count) == IF count > 1 THEN <<"s">> ELSE <<>>

YearWord == <<" ", "y", "e", "a", "r">>
MonthWord == <<" ", "m", "o", "n", "t", "h">>
OldWord == <<" ", "o", "l", "d">>
UnknownText == <<"u", "n", "k", "n", "o", "w", "n">>
UnknownAgeText == UnknownText \o <<" ", "a", "g", "e">>

\* The f-string both variants build from age.days.
AgeText(days) ==
    IF days > DaysPerYear
    THEN IntChars(days \div DaysPerYear) \o YearWord
         \o PluralS(days \div DaysPerYear)
    ELSE IntChars(days \div DaysPerMonth) \o MonthWord
         \o PluralS(days \div DaysPerMonth)

\* src/Bot.py
Bot_estimate_account_age(user_id, t, plat) ==
    IF FromTimestampRaises(timestamp(user_id), plat) THEN UnknownText
    ELSE AgeText(ElapsedDays(timestamp(user_id), t))

\* src/bot.py
bot_estimate_account_age(user_id, t, plat) ==
    IF FromTimestampRaises(timestamp(user_id), plat) THEN UnknownAgeText
    ELSE AgeText(ElapsedDays(timestamp(user_id), t)) \o OldWord

estimate_account_age(v, user_id, t, plat) ==
    IF v = "Bot.py" THEN Bot_estimate_account_age(user_id, t, plat)
    ELSE bot_estimate_account_age(user_id, t, plat)

-----------------------------------------------------------------------------
(* Inputs: identifiers, users, chats and updates.                          *)

Id(a, b, c, d) == [w3 |-> a, w2 |-> b, w1 |-> c, w0 |-> d]

\* The clock at start: 2024-01-01 00:00:00, 19723 days after the epoch.
Now0 == 19723 * SecondsPerDay

\* How often the clock advances in a run, and by how much each time.
MaxTicks == 2
TickSteps == {1, SecondsPerDay - 1}

\* Identifiers, by what their bits 32..63 decode to.
Ids ==
    { Id(0, 0, 0, 0),                \* 0: timestamp 0
      Id(0, 0, 65535, 65535),        \* 2^32 - 1: timestamp 0
      Id(0, 1, 10757, 61952),        \* 5000000000: timestamp 1
      Id(0, 1, 0, 0),                \* 2^32: timestamp 1
      Id(65536, 1, 10757, 61952),    \* 2^64 + 5000000000: timestamp 1
      Id(26002, 118, 0, 7),          \* Now0 - 10 s
      Id(26002, 129, 0, 7),          \* Now0 + 1 s: later than the clock
      Id(25962, 29568, 0, 7),        \* Now0 - 30 days
      Id(25922, 59008, 0, 0),        \* Now0 - 60 days
      Id(25520, 52480, 0, 9),        \* Now0 - 365 days
      Id(25519, 31616, 0, 9),        \* Now0 - 366 days
      Id(25039, 39296, 0, 9),        \* Now0 - 730 days
      Id(32768, 0, 0, 0),            \* 2^63: timestamp 2^31
      Id(65535, 65535, 0, 0),        \* timestamp 2^32 - 1
      Id(0 - 1, 65535, 65535, 65535),\* -1: timestamp 2^32 - 1
      Id(0 - 1, 65302, 57796, 60718) \* -1001234567890, a supergroup's id
    }

User(id, is_bot, first_name, last_name, username, language_code) ==
    [id |-> id, is_bot |-> is_bot, first_name |-> first_name,
     last_name |-> last_name, username |-> username,
     language_code |-> language_code]

\* The users a message can be forwarded from: every identifier, with all,
\* none or some of the optional fields set.
Users ==
    { User(i, FALSE, "Alex", Some("Kim"), Some("alexk"), Some("en")) :
        i \in Ids }
    \cup { User(i, FALSE, "Sam", None, None, None) : i \in Ids }
    \cup { User(i, TRUE, "InfoBot", None, Some("info_bot"), None) :
            i \in Ids }

\* The users who write to the bot (update.effective_user).
Requesters ==
    { User(Id(0, 1, 10757, 61952), FALSE, "Alex", Some("Kim"),
           Some("alexk"), Some("en")),
      User(Id(0, 0, 1883, 52501), FALSE, "Sam", None, None, None) }

Chats ==
    { [id |-> Id(0 - 1, 65302, 57796, 60718), type |-> "supergroup",
       title |-> Some("Friends"), username |-> None],
      [id |-> Id(0 - 1, 65302, 46305, 48463), type |-> "channel",
       title |-> Some("News"), username |-> Some("news")] }

\* message.forward_date: a datetime.
ForwardDates == { [year |-> 2023, month |-> 7, day |-> 4,
                   hour |-> 9, minute |-> 5] }

Texts == {"/start", "/help", "/myid", "hello"}

Opt(S) == {None} \cup {Some(x) : x \in S}

\* A message in a private chat with the bot: the chat's id is the
\* requester's.  A forwarded message carries forward_date; a message that
\* is not forwarded carries none of the forward_* fields.
Updates ==
    { [text |-> tx, effective_user |-> r, chat_id |-> r.id,
       forward_date |-> fd, forward_from |-> ff, forward_from_chat |-> fc,
       forward_sender_name |-> fn] :
        tx \in Texts, r \in Requesters, fd \in Opt(ForwardDates),
        ff \in Opt(Users), fc \in Opt(Chats), fn \in Opt({"Alex"}) }

IsUpdate(u) ==
    u \in Updates
    /\ (u.forward_date = None =>
          /\ u.forward_from = None
          /\ u.forward_from_chat = None
          /\ u.forward_sender_name = None)

-----------------------------------------------------------------------------
(* Rendering.  A reply's text is a heading, the rows of the tree and the   *)
(* text after them; a row is "<glyph> <label>: <pre><value>".              *)

Row(label, pre, value) == [label |-> label, pre |-> pre, value |-> value]

Text(head, rows, tail) == [head |-> head, rows |-> rows, tail |-> tail]

\* x if x else 'N/A'
OrNA(opt) == IF Truthy(opt) THEN <<opt[1]>> ELSE <<"N/A">>

\* hasattr(obj, name)
HasAttr(obj, name) == name \in DOMAIN obj

\* str.capitalize() of a chat type.
Capitalize(type) ==
    CASE type = "private" -> "Private"
      [] type = "group" -> "Group"
      [] type = "supergroup" -> "Supergroup"
      [] type = "channel" -> "Channel"

\* forward_date.strftime('%Y-%m-%d %H:%M')
Strftime(d) ==
    Pad(NatChars(d.year), 4) \o <<"-">> \o Pad(NatChars(d.month), 2)
    \o <<"-">> \o Pad(NatChars(d.day), 2) \o <<" ">>
    \o Pad(NatChars(d.hour), 2) \o <<":">> \o Pad(NatChars(d.minute), 2)

\* src/Bot.py
Bot_format_user_info(user, t, plat) ==
    Text(<<"<b>User Information</b>">>,
         << Row("ID", "", IdChars(user.id)),
            Row("Is Bot", "", IF user.is_bot THEN <<"Yes">> ELSE <<"No">>),
            Row("First Name", "", <<user.first_name>>),
            Row("Last Name", "", OrNA(user.last_name)),
            Row("Username", "@", OrNA(user.username)),
            Row("Account Age", "",
                Bot_estimate_account_age(user.id, t, plat)) >>,
         "")

\* src/bot.py
bot_format_user_info(user, t, plat) ==
    Text(<<"<b>User Information</b>">>,
         << Row("ID", "", IdChars(user.id)),
            Row("Is Bot", "",
                IF user.is_bot THEN <<"True">> ELSE <<"False">>),
            Row("First Name", "", <<user.first_name>>),
            Row("Username", "@", OrNA(user.username)),
            Row("Language", "",
                IF HasAttr(user, "language_code")
                THEN PyStr(user.language_code) ELSE <<"N/A">>),
            Row("Account Age", "",
                bot_estimate_account_age(user.id, t, plat)) >>,
         "")

\* src/Bot.py
Bot_format_chat_info(chat) ==
    Text(<<"<b>Chat Information</b>">>,
         << Row("ID", "", IdChars(chat.id)),
            Row("Type", "", <<Capitalize(chat.type)>>),
            Row("Title", "", PyStr(chat.title)),
            Row("Username", "@", OrNA(chat.username)) >>,
         "")

\* src/bot.py
bot_format_chat_info(chat) ==
    Text(<<"<b>Chat Information</b>">>,
         << Row("ID", "", IdChars(chat.id)),
            Row("Type", "", <<chat.type>>),
            Row("Title", "", PyStr(chat.title)),
            Row("Username", "@", OrNA(chat.username)) >>,
         "")

-----------------------------------------------------------------------------
(* The callbacks.  Each returns the reply_text calls it makes, in order.    *)

\* message.reply_text(text, parse_mode=...) answers in the message's chat.
reply_text(u, text, parse_mode) ==
    [chat_id |-> u.chat_id, parse_mode |-> parse_mode, text |-> text]

HTML == Some("HTML")

\* src/Bot.py
Bot_start(u) ==
    << reply_text(u,
         Text(<<"Hello ", u.effective_user.first_name, "!">>, <<>>,
              "I can show information about forwarded messages and user IDs."),
         HTML) >>

\* src/bot.py: reply_text(welcome_msg), no parse_mode given.
bot_start(u) ==
    << reply_text(u,
         Text(<<"Hello ", u.effective_user.first_name, "!">>, <<>>,
              "I can show information about forwarded messages."),
         None) >>

\* src/Bot.py
Bot_help_command(u) ==
    << reply_text(u,
         Text(<<"<b>Bot Commands</b>">>, <<>>,
              "Some info may be hidden due to privacy settings"),
         HTML) >>

\* src/bot.py
bot_help_command(u) ==
    << reply_text(u,
         Text(<<"<b>User Info Bot Help</b>">>, <<>>,
              "The bot will display information in this format:"),
         HTML) >>

\* The /myid rows without the fallback for an absent username.
MyIdRows_NoFallback(user) ==
    << Row("ID", "", IdChars(user.id)),
       Row("First Name", "", <<user.first_name>>),
       Row("Last Name", "", OrNA(user.last_name)),
       Row("Username", "@", PyStr(user.username)) >>

\* The rows of the /myid reply.
MyIdRows(user) ==
    << Row("ID", "", IdChars(user.id)),
       Row("First Name", "", <<user.first_name>>),
       Row("Last Name", "", OrNA(user.last_name)),
       Row("Username", "@", OrNA(user.username)) >>

\* src/Bot.py (src/bot.py has no such callback)
myid_command(u) ==
    << reply_text(u,
         Text(<<"<b>Your Telegram ID</b>">>, MyIdRows(u.effective_user), ""),
         HTML) >>

PartialText(msg) ==
    Text(<<"<b>Partial Information</b>">>,
         << Row("Name", "", <<msg.forward_sender_name[1]>>),
            Row("Forward Date", "", Strftime(msg.forward_date[1])) >>,
         "User has forwarding privacy enabled")

Bot_UnknownText ==
    Text(<<"Couldn't retrieve sender information.">>, <<>>,
         "This might be because:")

bot_UnknownText ==
    Text(<<"Couldn't retrieve sender information. ">>, <<>>,
         "This might be due to privacy settings that prevent forwarding.")

\* The first two tests in the other order.
Bot_classify_ChatFirst(msg) ==
    IF Present(msg.forward_from_chat) THEN "FullChannel"
    ELSE IF Present(msg.forward_from) THEN "FullPerson"
    ELSE IF Truthy(msg.forward_sender_name) THEN "PartialName"
    ELSE "Unknown"

\* src/Bot.py: the branch handle_forwarded takes for a message.
Bot_classify(msg) ==
    IF Present(msg.forward_from) THEN "FullPerson"
    ELSE IF Present(msg.forward_from_chat) THEN "FullChannel"
    ELSE IF Truthy(msg.forward_sender_name) THEN "PartialName"
    ELSE "Unknown"

\* src/bot.py: it has no branch for forward_sender_name.
bot_classify(msg) ==
    IF Present(msg.forward_from) THEN "FullPerson"
    ELSE IF Present(msg.forward_from_chat) THEN "FullChannel"
    ELSE "Unknown"

\* src/Bot.py
Bot_handle_forwarded(u, t, plat) ==
    LET branch == Bot_classify(u)
    IN  CASE branch = "FullPerson" ->
               << reply_text(u,
                    Bot_format_user_info(u.forward_from[1], t, plat),
                    HTML) >>
          [] branch = "FullChannel" ->
               << reply_text(u, Bot_format_chat_info(u.forward_from_chat[1]),
                             HTML) >>
          [] branch = "PartialName" ->
               << reply_text(u, PartialText(u), HTML) >>
          [] branch = "Unknown" ->
               << reply_text(u, Bot_UnknownText, HTML) >>

\* src/bot.py
bot_handle_forwarded(u, t, plat) ==
    LET branch == bot_classify(u)
    IN  CASE branch = "FullPerson" ->
               << reply_text(u,
                    bot_format_user_info(u.forward_from[1], t, plat),
                    HTML) >>
          [] branch = "FullChannel" ->
               << reply_text(u, bot_format_chat_info(u.forward_from_chat[1]),
                             HTML) >>
          [] branch = "Unknown" ->
               << reply_text(u, bot_UnknownText, HTML) >>

-----------------------------------------------------------------------------
(* Registration and dispatch.                                              *)

CommandHandler(command, callback) ==
    [kind |-> "command", trigger |-> command, callback |-> callback]

MessageHandler(filter, callback) ==
    [kind |-> "message", trigger |-> filter, callback |-> callback]

\* src/Bot.py __init__: the handlers, in the order add_handler is called.
Bot_handlers ==
    << CommandHandler("/start", "start"),
       CommandHandler("/help", "help_command"),
       CommandHandler("/myid", "myid_command"),
       MessageHandler("FORWARDED", "handle_forwarded") >>

\* src/bot.py __init__
bot_handlers ==
    << CommandHandler("/start", "start"),
       MessageHandler("FORWARDED", "handle_forwarded"),
       CommandHandler("/help", "help_command") >>

\* Whether a handler takes an update: a CommandHandler takes a message
\* whose text is its command, forwarded or not; filters.FORWARDED takes a
\* message that carries forward_date.
check_update(h, u) ==
    IF h.kind = "command" THEN u.text = h.trigger
    ELSE Present(u.forward_date)

\* All handlers are in one group: the first that takes the update handles
\* it and the others are not tried.  None when no handler takes it.
Dispatch(hs, u) ==
    LET takes == {i \in 1..Len(hs) : check_update(hs[i], u)}
    IN  IF takes = {} THEN None
        ELSE Some(hs[CHOOSE i \in takes : \A j \in takes : i <= j].callback)

\* The reply_text calls of callback `name` of variant v.
Callback(v, name, u, t, plat) ==
    CASE name = "start" ->
           IF v = "Bot.py" THEN Bot_start(u) ELSE bot_start(u)
      [] name = "help_command" ->
           IF v = "Bot.py" THEN Bot_help_command(u) ELSE bot_help_command(u)
      [] name = "myid_command" -> myid_command(u)
      [] name = "handle_forwarded" ->
           IF v = "Bot.py" THEN Bot_handle_forwarded(u, t, plat)
           ELSE bot_handle_forwarded(u, t, plat)

\* The estimate_account_age call a callback makes: format_user_info's, on
\* the FullPerson branch of handle_forwarded.
AgeCall(v, name, u, t, plat) ==
    IF name = "handle_forwarded" /\ Present(u.forward_from)
    THEN Some([user_id |-> u.forward_from[1].id, t |-> t,
               result |-> estimate_account_age(v, u.forward_from[1].id,
                                               t, plat)])
    ELSE None

LogRecord(level, msg) == [level |-> level, msg |-> msg]

-----------------------------------------------------------------------------
(* The process.                                                            *)

Variants == {"Bot.py", "bot.py"}
Platforms == {"time_t32", "time_t64"}
Tokens == {None, Some(""), Some("123456:ABC-DEF")}

Init ==
    /\ variant \in Variants
    /\ platform \in Platforms
    /\ BOT_TOKEN \in Tokens
    /\ pc = "main"
    /\ handlers = <<>>
    /\ log = {}
    /\ exit_status = None
    /\ now = Now0
    /\ ticks = 0
    /\ update = None
    /\ handled_by = None
    /\ replies = <<>>
    /\ age_call = None

\* BOT_TOKEN is None: an empty token passes.
TokenMissing_NoneOnly(token) == token = None

\* not BOT_TOKEN
TokenMissing(token) == ~Truthy(token)

\* __main__: if not BOT_TOKEN: logger.error(...); exit(1)
MissingToken ==
    /\ pc = "main"
    /\ TokenMissing(BOT_TOKEN)
    /\ log' = log \cup {LogRecord("ERROR",
           IF variant = "Bot.py"
           THEN "Missing TELEGRAM_BOT_TOKEN in environment variables"
           ELSE "No TELEGRAM_BOT_TOKEN found in environment variables")}
    /\ exit_status' = Some(1)
    /\ pc' = "exited"
    /\ UNCHANGED <<variant, platform, BOT_TOKEN, handlers, now, ticks,
                   update, handled_by, replies, age_call>>

\* __main__: bot = UserInfoBot(BOT_TOKEN); __init__ registers the handlers.
CreateBot ==
    /\ pc = "main"
    /\ ~TokenMissing(BOT_TOKEN)
    /\ handlers' = IF variant = "Bot.py" THEN Bot_handlers ELSE bot_handlers
    /\ pc' = "created"
    /\ UNCHANGED <<variant, platform, BOT_TOKEN, log, exit_status, now,
                   ticks, update, handled_by, replies, age_call>>

\* bot.run(): logger.info(...); self.app.run_polling()
run ==
    /\ pc = "created"
    /\ log' = log \cup {LogRecord("INFO",
           IF variant = "Bot.py" THEN "Starting bot..."
           ELSE "Starting User Info Bot...")}
    /\ pc' = "polling"
    /\ UNCHANGED <<variant, platform, BOT_TOKEN, handlers, exit_status, now,
                   ticks, update, handled_by, replies, age_call>>

\* Time passes between updates.
Tick ==
    /\ pc = "polling"
    /\ ticks < MaxTicks
    /\ \E d \in TickSteps : now' = now + d
    /\ ticks' = ticks + 1
    /\ UNCHANGED <<variant, platform, BOT_TOKEN, pc, handlers, log,
                   exit_status, update, handled_by, replies, age_call>>

\* An update arrives and is dispatched; the callback that takes it runs to
\* its end.  An update no handler takes is dropped.
process_update ==
    /\ pc = "polling"
    /\ \E u \in Updates :
         /\ IsUpdate(u)
         /\ LET cb == Dispatch(handlers, u)
                call == IF cb = None THEN None
                        ELSE AgeCall(variant, cb[1], u, now, platform)
            IN  /\ update' = Some(u)
                /\ handled_by' = cb
                /\ replies' = IF cb = None THEN <<>>
                              ELSE Callback(variant, cb[1], u, now, platform)
                /\ age_call' = call
                /\ log' = IF call # None
                             /\ FromTimestampRaises(
                                  timestamp(call[1].user_id), platform)
                          THEN log \cup {LogRecord("WARNING",
                                   "Couldn't estimate account age")}
                          ELSE log
    /\ pc' = "handled"
    /\ UNCHANGED <<variant, platform, BOT_TOKEN, handlers, exit_status,
                   now, ticks>>

\* The callback has returned; the application waits for the next update.
UpdateDone ==
    /\ pc = "handled"
    /\ update' = None
    /\ handled_by' = None
    /\ replies' = <<>>
    /\ age_call' = None
    /\ pc' = "polling"
    /\ UNCHANGED <<variant, platform, BOT_TOKEN, handlers, log, exit_status,
                   now, ticks>>

Next ==
    \/ MissingToken
    \/ CreateBot
    \/ run
    \/ Tick
    \/ process_update
    \/ UpdateDone

Spec == Init /\ [][Next]_vars

-----------------------------------------------------------------------------
(* Properties.                                                             *)

Handled == pc = "handled"

ForwardedHandled == Handled /\ handled_by = Some("handle_forwarded")

IsDigit(c) == c \in {"0", "1", "2", "3", "4", "5", "6", "7", "8", "9"}

\* The length of the longest prefix of s made of digits.
LeadingDigits(s) ==
    CHOOSE k \in 0..Len(s) :
        /\ \A i \in 1..k : IsDigit(s[i])
        /\ (k < Len(s) => ~IsDigit(s[k + 1]))

DigitValue(c) == CHOOSE d \in 0..9 : DigitChars[d + 1] = c

RECURSIVE ParseNat(_)
ParseNat(s) ==
    IF s = <<>> THEN 0
    ELSE (ParseNat(SubSeq(s, 1, Len(s) - 1)) * 10) + DigitValue(s[Len(s)])

Chars_year == <<" ", "y", "e", "a", "r">>
Chars_years == <<" ", "y", "e", "a", "r", "s">>
Chars_month == <<" ", "m", "o", "n", "t", "h">>
Chars_months == <<" ", "m", "o", "n", "t", "h", "s">>
Chars_old == <<" ", "o", "l", "d">>
Chars_unknown == <<"u", "n", "k", "n", "o", "w", "n">>
Chars_unknown_age ==
    <<"u", "n", "k", "n", "o", "w", "n", " ", "a", "g", "e">>
Chars_54_years == <<"5", "4", " ", "y", "e", "a", "r", "s">>
Chars_12_months == <<"1", "2", " ", "m", "o", "n", "t", "h", "s">>
Chars_0_month == <<"0", " ", "m", "o", "n", "t", "h">>

\* ^\d+ (year|month)s?$
MatchesAgePattern(s) ==
    LET k == LeadingDigits(s)
    IN  /\ k >= 1
        /\ SubSeq(s, k + 1, Len(s))
             \in {Chars_year, Chars_years, Chars_month, Chars_months}

\* The literal fallback string of the variant.
Fallback(v) == IF v = "Bot.py" THEN Chars_unknown ELSE Chars_unknown_age

\* C1: every estimate_account_age call returns a string matching
\* ^\d+ (year|month)s?$ or the literal fallback string, also for an
\* identifier whose timestamp is later than the clock.  Stated of
\* src/Bot.py, whose results carry no ' old' after the unit.
C1_EstimateMatchesPatternOrFallback ==
    (age_call # None /\ variant = "Bot.py") =>
        \/ MatchesAgePattern(age_call[1].result)
        \/ age_call[1].result = Fallback(variant)

\* The disclosure case a reply renders, read off its heading.
DisclosureOf(reply) ==
    CASE reply.text.head = <<"<b>User Information</b>">> -> "FullPerson"
      [] reply.text.head = <<"<b>Chat Information</b>">> -> "FullChannel"
      [] reply.text.head = <<"<b>Partial Information</b>">> -> "PartialName"
      [] reply.text.head[1] = "Couldn't retrieve sender information."
           -> "Unknown"
      [] reply.text.head[1] = "Couldn't retrieve sender information. "
           -> "Unknown"
      [] OTHER -> "none"

Labels(reply) == [i \in 1..Len(reply.text.rows) |-> reply.text.rows[i].label]

RowValue(reply, label) ==
    LET i == CHOOSE i \in 1..Len(reply.text.rows) :
                 reply.text.rows[i].label = label
    IN  reply.text.rows[i].value

HasRow(reply, label) ==
    \E i \in 1..Len(reply.text.rows) : reply.text.rows[i].label = label

\* The four tiers, first match wins.
FourTiers(msg) ==
    IF msg.forward_from # None THEN "FullPerson"
    ELSE IF msg.forward_from_chat # None THEN "FullChannel"
    ELSE IF msg.forward_sender_name # None THEN "PartialName"
    ELSE "Unknown"

\* The three tiers of a variant without the sender-name branch.
ThreeTiers(msg) ==
    IF msg.forward_from # None THEN "FullPerson"
    ELSE IF msg.forward_from_chat # None THEN "FullChannel"
    ELSE "Unknown"

\* A PartialName reply: the name row, the formatted date row, no ID row.
PartialRowsOk(reply, msg) ==
    DisclosureOf(reply) = "PartialName" =>
        /\ Labels(reply) = <<"Name", "Forward Date">>
        /\ RowValue(reply, "Name") = <<msg.forward_sender_name[1]>>
        /\ (msg.forward_date[1] = [year |-> 2023, month |-> 7, day |-> 4,
                                   hour |-> 9, minute |-> 5]
              => RowValue(reply, "Forward Date")
                   = <<"2", "0", "2", "3", "-", "0", "7", "-", "0", "4",
                       " ", "0", "9", ":", "0", "5">>)
        /\ ~HasRow(reply, "ID")

\* C2 as claimed: in both variants handle_forwarded answers with exactly
\* the case the four tiers give, for every combination of forward_from,
\* forward_from_chat and forward_sender_name.
C2_FourTiersInBothVariants ==
    ForwardedHandled =>
        /\ Len(replies) = 1
        /\ DisclosureOf(replies[1]) = FourTiers(update[1])
        /\ PartialRowsOk(replies[1], update[1])

\* C2 as amended: src/Bot.py answers with the case the four tiers give;
\* src/bot.py has no sender-name tier and answers a message that carries
\* only forward_sender_name with the Unknown message.
C2_TiersPerVariant ==
    ForwardedHandled =>
        /\ Len(replies) = 1
        /\ DisclosureOf(replies[1])
             = IF variant = "Bot.py" THEN FourTiers(update[1])
               ELSE ThreeTiers(update[1])
        /\ PartialRowsOk(replies[1], update[1])

C2_Witness ==
    /\ ForwardedHandled
    /\ variant = "bot.py"
    /\ update[1].forward_from = None
    /\ update[1].forward_from_chat = None
    /\ update[1].forward_sender_name = Some("Alex")
    /\ DisclosureOf(replies[1]) = "Unknown"

\* C3: every forwarded message is handled by handle_forwarded, whatever
\* its text.
C3_ForwardedGoesToHandleForwarded ==
    (Handled /\ update[1].forward_date # None)
        => handled_by = Some("handle_forwarded")

\* C4: every update a registered handler takes gets exactly one reply, in
\* HTML parse mode, in the chat the update came from.
C4_OneHtmlReplyToSameChat ==
    (Handled /\ handled_by # None) =>
        /\ Len(replies) = 1
        /\ replies[1].parse_mode = Some("HTML")
        /\ replies[1].chat_id = update[1].chat_id

\* C5: with the token absent or empty the process logs an error and exits
\* with a non-zero status, no handler is ever registered and polling never
\* starts; handlers are registered only in runs where the token is present.
C5_MissingTokenIsFatal ==
    /\ (BOT_TOKEN = None \/ BOT_TOKEN = Some("")) =>
          /\ handlers = <<>>
          /\ pc \in {"main", "exited"}
          /\ (pc = "main" => ENABLED MissingToken /\ ~ENABLED CreateBot)
          /\ (pc = "exited" =>
                /\ exit_status # None
                /\ exit_status[1] # 0
                /\ \E r \in log : r.level = "ERROR")
    /\ (handlers # <<>> \/ pc \in {"created", "polling", "handled"}) =>
          /\ BOT_TOKEN # None
          /\ BOT_TOKEN # Some("")
          /\ exit_status = None

C5_Witness ==
    /\ BOT_TOKEN = Some("")
    /\ pc = "exited"
    /\ exit_status = Some(1)
    /\ handlers = <<>>

MyIdHandled == Handled /\ handled_by = Some("myid_command")

\* The decimal digits of the requesters' identifiers.
RequesterIdChars(id) ==
    IF id = Id(0, 1, 10757, 61952)
    THEN <<"5", "0", "0", "0", "0", "0", "0", "0", "0", "0">>
    ELSE <<"1", "2", "3", "4", "5", "6", "7", "8", "9">>

\* C6 as claimed: the /myid reply has the identifier, name and handle rows,
\* reports the requester as not automated and has an account-age row whose
\* value is estimate_account_age(requester id).
C6_MyIdIsPersonSummary ==
    MyIdHandled =>
        /\ Len(replies) = 1
        /\ HasRow(replies[1], "ID")
        /\ HasRow(replies[1], "First Name")
        /\ HasRow(replies[1], "Username")
        /\ HasRow(replies[1], "Is Bot")
        /\ RowValue(replies[1], "Is Bot") \in {<<"No">>, <<"False">>}
        /\ HasRow(replies[1], "Account Age")
        /\ RowValue(replies[1], "Account Age")
             = estimate_account_age(variant, update[1].effective_user.id,
                                    now, platform)

\* C6 as amended: /myid is a command of src/Bot.py only; its reply has
\* exactly the rows ID, First Name, Last Name and Username of the
\* requester (N/A for an absent last name or username), and neither an
\* Is Bot row nor an Account Age row: estimate_account_age is not called.
C6_MyIdRowsOnly ==
    MyIdHandled =>
        LET user == update[1].effective_user
            reply == replies[1]
        IN  /\ variant = "Bot.py"
            /\ Len(replies) = 1
            /\ Labels(reply) = <<"ID", "First Name", "Last Name", "Username">>
            /\ RowValue(reply, "ID") = RequesterIdChars(user.id)
            /\ RowValue(reply, "First Name") = <<user.first_name>>
            /\ RowValue(reply, "Last Name")
                 = IF user.last_name = None THEN <<"N/A">>
                   ELSE user.last_name
            /\ RowValue(reply, "Username")
                 = IF user.username = None THEN <<"N/A">>
                   ELSE user.username
            /\ reply.text.rows[4].pre = "@"
            /\ ~HasRow(reply, "Is Bot")
            /\ ~HasRow(reply, "Account Age")
            /\ age_call = None

C6_Witness ==
    /\ MyIdHandled
    /\ update[1].effective_user.username = None
    /\ RowValue(replies[1], "Username") = <<"N/A">>

\* The optional payload field a row shows.
OptionalField ==
    [l \in {"Last Name", "Username", "Language", "Title"} |->
        CASE l = "Last Name" -> "last_name"
          [] l = "Username" -> "username"
          [] l = "Language" -> "language_code"
          [] l = "Title" -> "title"]

\* The payload the reply renders: the requester, the source user or the
\* source chat; None for the replies that render none.
Payload ==
    IF handled_by = Some("myid_command")
    THEN Some(update[1].effective_user)
    ELSE IF handled_by = Some("handle_forwarded")
    THEN (IF update[1].forward_from # None THEN update[1].forward_from
          ELSE update[1].forward_from_chat)
    ELSE None

\* C7: every row of every rendered block shows a concrete value or N/A:
\* never an empty string, never the text None; an optional field that is
\* absent in the payload shows N/A (the handle row @N/A).
C7_RowsConcreteOrNA ==
    Handled =>
        \A i \in 1..Len(replies) :
            \A j \in 1..Len(replies[i].text.rows) :
                LET row == replies[i].text.rows[j]
                IN  /\ row.value \notin {<<>>, <<"">>, <<"None">>}
                    /\ (/\ row.label \in DOMAIN OptionalField
                        /\ Payload # None
                        /\ Payload[1][OptionalField[row.label]] = None)
                         => row.value = <<"N/A">>

\* C8: for a fixed identifier the elapsed day count never decreases as the
\* clock advances, also while the identifier's timestamp is later than the
\* clock.
C8_DaysMonotonicInNow ==
    [][\A i \in Ids :
          ElapsedDays(timestamp(i), now') >= ElapsedDays(timestamp(i), now)
      ]_vars

\* The clock has advanced past the timestamp of an identifier that was
\* later than the clock at start, and its estimate is taken.
C8_Witness ==
    /\ ticks > 0
    /\ age_call # None
    /\ age_call[1].user_id = Id(26002, 129, 0, 7)
    /\ ElapsedDays(timestamp(age_call[1].user_id), Now0) < 0
    /\ ElapsedDays(timestamp(age_call[1].user_id), now) = 0

\* A rendered age read back: the count and what follows its digits.
AgeParts(s) ==
    LET neg == s # <<>> /\ s[1] = "-"
        body == IF neg THEN Tail(s) ELSE s
        k == LeadingDigits(body)
    IN  [ok |-> k >= 1,
         count |-> IF neg THEN 0 - ParseNat(SubSeq(body, 1, k))
                   ELSE ParseNat(SubSeq(body, 1, k)),
         rest |-> SubSeq(body, k + 1, Len(body))]

\* s is '<days // 365> year' for days > 365 and '<days // 30> month'
\* otherwise, with 's' appended exactly when the count is > 1.
IsAgeOf(days, s) ==
    LET p == AgeParts(s)
    IN  /\ p.ok
        /\ IF days > 365
           THEN /\ p.count = days \div 365
                /\ p.rest = IF p.count > 1 THEN Chars_years ELSE Chars_year
           ELSE /\ p.count = days \div 30
                /\ p.rest = IF p.count > 1 THEN Chars_months ELSE Chars_month

CallDays == ElapsedDays(timestamp(age_call[1].user_id), age_call[1].t)

\* C9 as claimed: for every identifier and time the result is the count
\* and unit of the elapsed days, and 5000000000 on 2024-01-01 gives
\* '54 years'.
C9_AgeOfElapsedDays ==
    age_call # None =>
        /\ IsAgeOf(CallDays, age_call[1].result)
        /\ (age_call[1].user_id = Id(0, 1, 10757, 61952)
            /\ age_call[1].t = Now0)
             => age_call[1].result = Chars_54_years

WithoutOld(s) == SubSeq(s, 1, Len(s) - Len(Chars_old))

EndsWithOld(s) ==
    /\ Len(s) >= Len(Chars_old)
    /\ SubSeq(s, Len(s) - Len(Chars_old) + 1, Len(s)) = Chars_old

\* The timestamp of the call does not fit a 32-bit time_t.
CallOverflows ==
    /\ platform = "time_t32"
    /\ timestamp(age_call[1].user_id).hi >= 32768

\* C9 as amended: where fromtimestamp raises (a 32-bit time_t and a
\* timestamp of 2^31 or more) the result is the variant's fallback string;
\* otherwise src/Bot.py returns the count and unit of the elapsed days and
\* src/bot.py returns the same followed by ' old'.  5000000000 on
\* 2024-01-01 gives '54 years' ('54 years old'), and exactly 365 elapsed
\* days give '12 months'.
C9_AgeOfElapsedDaysPerVariant ==
    age_call # None =>
        LET r == age_call[1].result
            age == IF variant = "Bot.py" THEN r ELSE WithoutOld(r)
        IN  IF CallOverflows THEN r = Fallback(variant)
            ELSE /\ variant = "bot.py" => EndsWithOld(r)
                 /\ IsAgeOf(CallDays, age)
                 /\ (age_call[1].user_id = Id(0, 1, 10757, 61952)
                     /\ age_call[1].t = Now0) => age = Chars_54_years
                 /\ (age_call[1].user_id = Id(25520, 52480, 0, 9)
                     /\ age_call[1].t = Now0) => age = Chars_12_months
                 /\ (age_call[1].user_id = Id(26002, 118, 0, 7)
                     /\ age_call[1].t = Now0) => age = Chars_0_month

C9_Witness ==
    /\ age_call # None
    /\ variant = "Bot.py"
    /\ age_call[1].user_id = Id(0, 1, 10757, 61952)
    /\ age_call[1].t = Now0
    /\ age_call[1].result = Chars_54_years

\* Two identifiers agree on bits 32..63.
SameUpperBits(i, j) == i.w2 = j.w2 /\ (i.w3 - j.w3) % 65536 = 0

\* An identifier in 0 .. 2^32 - 1.
Below2To32(i) == i.w3 = 0 /\ i.w2 = 0

\* C10: the estimate depends on the identifier only through bits 32..63:
\* identifiers that agree on them decode to the same timestamp and get the
\* same string at the same time; every identifier in 0 .. 2^32 - 1 decodes
\* to timestamp 0 and gets the result of identifier 0; the timestamp is in
\* 0 .. 2^32 - 1 also for a negative identifier.
C10_OnlyBits32To63 ==
    age_call # None =>
        LET i == age_call[1].user_id
            ts == timestamp(i)
        IN  /\ ts.hi \in 0..65535
            /\ ts.lo \in 0..65535
            /\ \A j \in Ids :
                 SameUpperBits(i, j) =>
                    /\ timestamp(j) = ts
                    /\ estimate_account_age(variant, j, age_call[1].t,
                                            platform) = age_call[1].result
            /\ Below2To32(i) =>
                 /\ ts = [hi |-> 0, lo |-> 0]
                 /\ age_call[1].result
                      = estimate_account_age(variant, Id(0, 0, 0, 0),
                                             age_call[1].t, platform)

\* The estimate of a negative identifier, which shares its upper bits
\* with another identifier.
C10_Witness ==
    /\ age_call # None
    /\ age_call[1].user_id.w3 < 0
    /\ \E j \in Ids : j # age_call[1].user_id
                      /\ SameUpperBits(age_call[1].user_id, j)

=============================================================================
